---------------------------- MODULE Spec2Model ----------------------------
(***************************************************************************)
(* A model of armake2's PBO container engine (src/src/armake/pbo.rs):      *)
(* the glob filter, the directory packer, PBO::write, PBO::read and        *)
(* PBO::filehash.                                                          *)
(*                                                                         *)
(* Strings and byte buffers are sequences of byte values 0..255 (Rust's    *)
(* String is its UTF-8 bytes; the model stays within ASCII).  Rust indexes *)
(* from 0 and TLA+ from 1: the helpers below take Rust's 0-based indices.  *)
(***************************************************************************)
EXTENDS Integers, Sequences, FiniteSets, TLC

VARIABLES
    pc,       \* where the modelled call stands
    arg,      \* the inputs the running call was given
    pbo,      \* the container: struct PBO
    output,   \* the bytes the output stream has accepted
    failed,   \* the write_all calls of PBO::write the stream refused
    loaded,   \* the container PBO::read returned
    ret       \* what the call returned

vars == <<pc, arg, pbo, output, failed, loaded, ret>>

----------------------------------------------------------------------------
(* Bounds of the model *)

\* longest string drawn for the glob filter
MaxLen == 3
\* longest exclusion list drawn for file_allowed
MaxPatterns == 2
\* most entries of a container built in memory
MaxFiles == 2
\* most header extensions of a container built in memory
MaxExtensions == 2
\* most entries of a packed directory, and of a directory inside it
MaxDirEntries == 3

----------------------------------------------------------------------------
(* Byte literals *)

NUL == 0
STAR == 42
DOT == 46
EQUALS == 61
NEWLINE == 10
\* usize::MAX, the value `s.len() - 1` wraps to without overflow checks.
\* It is 2^64 - 1 on a 64-bit target; TLC's integers are 32-bit, and every
\* value above the longest string gives the same runs.
USIZE_MAX == 2147483647

Str_a_p3d == <<97, 46, 112, 51, 100>>
Str_star_p3d == <<42, 46, 112, 51, 100>>
Str_b_star_p3d == <<98, 42, 46, 112, 51, 100>>
Str_config_cpp == <<99, 111, 110, 102, 105, 103, 46, 99, 112, 112>>
Str_config_bin == <<99, 111, 110, 102, 105, 103, 46, 98, 105, 110>>
Str_PBOPREFIX == <<36, 80, 66, 79, 80, 82, 69, 70, 73, 88, 36>>
Str_prefix == <<112, 114, 101, 102, 105, 120>>
Str_nothing == <<110, 111, 116, 104, 105, 110, 103>>
Str_texture_paa == <<116, 101, 120, 116, 117, 114, 101, 46, 112, 97, 97>>
Str_paa == <<112, 97, 97>>
SLASH == 47
BACKSLASH == 92

----------------------------------------------------------------------------
(* Rust's str operations *)

\* all sequences over S of length at most n
SeqsUpTo(S, n) == UNION {[1..k -> S] : k \in 0..n}

\* the element of a set of one element.  TheOne({F(x) : x \in {e}}) is F
\* applied to the value of e, which is computed once.
TheOne(S) == CHOOSE r \in S : TRUE

\* str::find(c): the 0-based index of the first c, -1 for None
Find(str, c) ==
    IF \E k \in 1..Len(str) : str[k] = c
    THEN (CHOOSE k \in 1..Len(str) :
              str[k] = c /\ \A j \in 1..(k - 1) : str[j] # c) - 1
    ELSE -1

\* &s[i..]
StrFrom(str, i) == SubSeq(str, i + 1, Len(str))

\* &s[..i]
StrTo(str, i) == SubSeq(str, 1, i)

----------------------------------------------------------------------------
(* Glob filter: matches_glob, file_allowed.  A call returns "true",        *)
(* "false" or "panic".  oc says whether the build has overflow checks      *)
(* (debug) or wraps (release).                                             *)

RECURSIVE matches_glob(_, _, _)
RECURSIVE GlobLoop(_, _, _, _, _, _)

\* the loop `for i in (index+1)..(s.len()-1)`, from i on
GlobLoop(s, pattern, index, i, upper, oc) ==
    IF i >= upper THEN "false"
    ELSE IF i > Len(s) THEN "panic"      \* s[i..] past the end of s
    ELSE LET r == matches_glob(StrFrom(s, i), StrFrom(pattern, index + 1), oc)
         IN  IF r = "panic" THEN "panic"
             ELSE IF r = "true" THEN "true"
             ELSE GlobLoop(s, pattern, index, i + 1, upper, oc)

matches_glob(s, pattern, oc) ==
    LET index == Find(pattern, STAR) IN
    IF index = -1 THEN (IF s = pattern THEN "true" ELSE "false")
    ELSE IF index > Len(s) THEN "panic"  \* s[..index] past the end of s
    ELSE IF StrTo(s, index) # StrTo(pattern, index) THEN "false"
    ELSE IF Len(s) = 0 /\ oc THEN "panic"    \* s.len() - 1 overflows
    ELSE GlobLoop(s, pattern, index, index + 1,
                  IF Len(s) = 0 THEN USIZE_MAX ELSE Len(s) - 1, oc)

RECURSIVE file_allowed(_, _, _)
file_allowed(name, exclude_patterns, oc) ==
    IF exclude_patterns = <<>> THEN "true"
    ELSE LET r == matches_glob(name, Head(exclude_patterns), oc)
         IN  IF r = "panic" THEN "panic"
             ELSE IF r = "true" THEN "false"
             ELSE file_allowed(name, Tail(exclude_patterns), oc)

----------------------------------------------------------------------------
(* struct PBO with nothing in it *)

NoPBO == [files |-> <<>>, header_extensions |-> <<>>, headers |-> <<>>,
          checksum |-> <<>>]

----------------------------------------------------------------------------
(* Entry Header Codec: struct PBOHeader, PBOHeader::write, PBOHeader::read *)

\* the packing_method that marks the header extensions, 0x56657273
VERS == 1449489011

\* the four bytes written most significant first
U32BE(n) ==
    <<(n \div 16777216) % 256, (n \div 65536) % 256, (n \div 256) % 256, n % 256>>

\* write_u32::<LittleEndian>(n as u32): the four bytes of n modulo 2^32
U32LE(n) ==
    <<n % 256, (n \div 256) % 256, (n \div 65536) % 256, (n \div 16777216) % 256>>

\* read_u32::<LittleEndian> of four bytes.  TLC's integers are 32-bit
\* signed: a value of 2^31 or more is held as 2^31 - 1, which like the true
\* value is larger than every stream of the model.
U32Value(b) ==
    IF b[4] >= 128 THEN 2147483647
    ELSE b[1] + 256 * b[2] + 65536 * b[3] + 16777216 * b[4]

PBOHeader(filename, packing_method, original_size, reserved, timestamp, data_size) ==
    [filename |-> filename, packing_method |-> packing_method,
     original_size |-> original_size, reserved |-> reserved,
     timestamp |-> timestamp, data_size |-> data_size]

PBOHeader_write(h) ==
    h.filename \o <<NUL>> \o U32LE(h.packing_method) \o U32LE(h.original_size)
        \o U32LE(h.reserved) \o U32LE(h.timestamp) \o U32LE(h.data_size)

\* read_cstring(input) with the stream at 0-based position pos: the bytes up
\* to the next NUL, which is consumed, or up to the end of the stream
read_cstring(input, pos) ==
    TheOne({
        IF z = -1 THEN [s |-> StrFrom(input, pos), pos |-> Len(input)]
        ELSE [s |-> SubSeq(input, pos + 1, pos + z), pos |-> pos + z + 1]
      : z \in {Find(StrFrom(input, pos), NUL)}})

\* PBOHeader::read at position pos: [ok, header, pos]; ok is FALSE when the
\* stream ends inside one of the five integers
PBOHeader_read(input, pos) ==
    TheOne({
        LET p == name.pos
            u(k) == U32Value(SubSeq(input, p + 4 * k + 1, p + 4 * k + 4))
        IN  IF p + 20 > Len(input)
            THEN [ok |-> FALSE, header |-> <<>>, pos |-> Len(input)]
            ELSE [ok |-> TRUE,
                  header |-> PBOHeader(name.s, u(0), u(1), u(2), u(3), u(4)),
                  pos |-> p + 20]
      : name \in {read_cstring(input, pos)}})

----------------------------------------------------------------------------
(* The maps of struct PBO.  `files` (LinkedHashMap) is the sequence of its  *)
(* <<name, bytes>> pairs in insertion order; `header_extensions` (HashMap)  *)
(* is the sequence of its <<key, value>> pairs in the order this instance   *)
(* iterates them, which std's randomly seeded hasher leaves arbitrary.      *)

Keys(m) == {m[k][1] : k \in 1..Len(m)}
Pairs(m) == {m[k] : k \in 1..Len(m)}
Get(m, key) == (CHOOSE k \in 1..Len(m) : m[k][1] = key)

\* HashMap::insert: a present key keeps its place and takes the new value
HashMapInsert(m, key, value) ==
    IF key \in Keys(m)
    THEN [k \in 1..Len(m) |-> IF m[k][1] = key THEN <<key, value>> ELSE m[k]]
    ELSE Append(m, <<key, value>>)

\* LinkedHashMap::insert: a present key takes the new value and moves to
\* the end of the iteration order
LinkedHashMapInsert(m, key, value) ==
    Append(SelectSeq(m, LAMBDA e : e[1] # key), <<key, value>>)

----------------------------------------------------------------------------
(* PBO::write *)

\* str::to_lowercase, on ASCII
to_lowercase(str) ==
    [k \in 1..Len(str) |-> IF str[k] >= 65 /\ str[k] <= 90 THEN str[k] + 32 ELSE str[k]]

\* String's Ord: a < b, byte by byte
StrLess(a, b) ==
    \E k \in 1..(Len(a) + 1) :
        /\ k <= Len(b)
        /\ \A j \in 1..(k - 1) : a[j] = b[j]
        /\ (k = Len(a) + 1 \/ a[k] < b[k])

\* the names compared as they are, upper case before lower case
CaseLess(a, b) == StrLess(a[1], b[1])

\* the comparator of line 206: a.0.to_lowercase().cmp(&b.0.to_lowercase())
LowerLess(a, b) == StrLess(to_lowercase(a[1]), to_lowercase(b[1]))

\* sort_by is a stable sort: e goes after every element not greater than it
RECURSIVE SortInsert(_, _)
SortInsert(sorted, e) ==
    IF sorted = <<>> THEN <<e>>
    ELSE IF LowerLess(e, Head(sorted)) THEN <<e>> \o sorted
    ELSE <<Head(sorted)>> \o SortInsert(Tail(sorted), e)

RECURSIVE SortFrom(_, _)
SortFrom(files, sorted) ==
    IF files = <<>> THEN sorted
    ELSE SortFrom(Tail(files), SortInsert(sorted, Head(files)))

files_sorted(files) == SortFrom(files, <<>>)

RECURSIVE Concat(_)
Concat(chunks) ==
    IF chunks = <<>> THEN <<>> ELSE Head(chunks) \o Concat(Tail(chunks))

\* lines 179-187: the header that opens the extensions
ext_header == PBOHeader(<<>>, VERS, 0, 0, 0, 0)

\* lines 189-203: the extensions, `prefix` first, closed by an empty key
ExtensionBytes(header_extensions) ==
    LET others == SelectSeq(header_extensions, LAMBDA e : e[1] # Str_prefix)
    IN  (IF Str_prefix \in Keys(header_extensions)
         THEN Str_prefix \o <<NUL>>
                  \o header_extensions[Get(header_extensions, Str_prefix)][2] \o <<NUL>>
         ELSE <<>>)
        \o Concat([k \in 1..Len(others) |->
                      others[k][1] \o <<NUL>> \o others[k][2] \o <<NUL>>])
        \o <<NUL>>

\* lines 208-219: one header per entry of the sorted list
EntryHeaderBytes(sorted) ==
    Concat([k \in 1..Len(sorted) |->
               PBOHeader_write(PBOHeader(sorted[k][1], 0, Len(sorted[k][2]), 0, 0,
                                         Len(sorted[k][2])))])

\* lines 221-225: the closing header, ext_header with packing_method 0
TerminatorBytes == PBOHeader_write([ext_header EXCEPT !.packing_method = 0])

\* lines 177-225: the scratch buffer `headers`
HeaderSection(p) ==
    PBOHeader_write(ext_header) \o ExtensionBytes(p.header_extensions)
        \o EntryHeaderBytes(files_sorted(p.files)) \o TerminatorBytes

\* The SHA-1 of openssl's Hasher, abstracted: 20 bytes computed from the
\* length of the message and a sum of its bytes weighted by position.
RECURSIVE Sha1Sum(_, _, _)
Sha1Sum(msg, lo, hi) ==
    IF lo > hi THEN 0
    ELSE IF lo = hi THEN ((msg[lo] + 1) * (lo * lo + 7)) % 65521
    ELSE LET mid == (lo + hi) \div 2
         IN  (Sha1Sum(msg, lo, mid) + Sha1Sum(msg, mid + 1, hi)) % 65521

Sha1(msg) ==
    TheOne({
        [i \in 1..20 |-> (st \div i + st * i + i) % 256]
      : st \in {Sha1Sum(msg, 1, Len(msg)) + 31 * Len(msg) + 1}})

\* lines 227-238: the write_all calls in order, each with the bytes it is
\* given and whether its Result is propagated by `?`; the digest covers the
\* scratch buffer and every content, and not the padding byte
\* the digest fed the padding byte as well
HashedBytesAndPadding(headers, sorted) ==
    headers \o Concat([k \in 1..Len(sorted) |-> sorted[k][2]]) \o <<NUL>>

HashedBytes(headers, sorted) ==
    headers \o Concat([k \in 1..Len(sorted) |-> sorted[k][2]])

WriteCalls(p) ==
    TheOne({
        <<[bytes |-> hf[1], checked |-> FALSE]>>
        \o [k \in 1..Len(hf[2]) |-> [bytes |-> hf[2][k][2], checked |-> TRUE]]
        \o <<[bytes |-> <<NUL>>, checked |-> FALSE],
             [bytes |-> Sha1(HashedBytes(hf[1], hf[2])), checked |-> TRUE]>>
      : hf \in {<<HeaderSection(p), files_sorted(p.files)>>}})

\* the calls from the k-th on, on a stream that refuses the calls in refuse
\* (a refused write_all is taken to accept none of its bytes)
RECURSIVE RunCalls(_, _, _, _, _)
RunCalls(calls, k, refuse, out, bad) ==
    IF k > Len(calls) THEN [output |-> out, failed |-> bad, ret |-> "Ok"]
    ELSE IF k \in refuse
         THEN IF calls[k].checked
              THEN [output |-> out, failed |-> bad \cup {k}, ret |-> "Err"]
              ELSE RunCalls(calls, k + 1, refuse, out, bad \cup {k})
         ELSE RunCalls(calls, k + 1, refuse, out \o calls[k].bytes, bad)

PBO_write(p, out, refuse) ==
    TheOne({RunCalls(calls, 1, refuse, out, {}) : calls \in {WriteCalls(p)}})

\* what PBO::write can do on the streams that refuse any of its calls
WriteOutcomes(p, out) ==
    {PBO_write(p, out, refuse) : refuse \in SUBSET (1..(Len(p.files) + 3))}

----------------------------------------------------------------------------
(* PBO::read *)

\* lines 89-94: the key/value pairs up to an empty key
RECURSIVE ReadExtensions(_, _, _)
ReadExtensions(input, pos, exts) ==
    TheOne({
        IF Len(key.s) = 0 THEN [exts |-> exts, pos |-> key.pos]
        ELSE TheOne({
                 ReadExtensions(input, value.pos,
                                HashMapInsert(exts, key.s, value.s))
               : value \in {read_cstring(input, key.pos)}})
      : key \in {read_cstring(input, pos)}})

\* lines 82-102: the header loop
RECURSIVE ReadHeaders(_, _, _, _, _)
ReadHeaders(input, pos, first, headers, exts) ==
    TheOne({
        IF ~h.ok THEN [ret |-> "Err"]
        ELSE IF h.header.packing_method = VERS
        THEN IF ~first THEN [ret |-> "panic"]       \* unreachable!()
             ELSE TheOne({
                      ReadHeaders(input, e.pos, FALSE, headers, e.exts)
                    : e \in {ReadExtensions(input, h.pos, exts)}})
        ELSE IF h.header.filename = <<>>
        THEN [ret |-> "Ok", headers |-> headers, exts |-> exts, pos |-> h.pos]
        ELSE ReadHeaders(input, h.pos, FALSE, Append(headers, h.header), exts)
      : h \in {PBOHeader_read(input, pos)}})

\* lines 104-109: the contents, data_size bytes for each header in order
RECURSIVE ReadFiles(_, _, _, _)
ReadFiles(input, pos, headers, files) ==
    IF headers = <<>> THEN [ret |-> "Ok", files |-> files, pos |-> pos]
    ELSE TheOne({
             IF size > Len(input) - pos THEN [ret |-> "Err"]
             ELSE ReadFiles(input, pos + size, Tail(headers),
                            LinkedHashMapInsert(files, Head(headers).filename,
                                                SubSeq(input, pos + 1, pos + size)))
           : size \in {Head(headers).data_size}})

\* lines 111-120: one byte skipped if there is one, the 20-byte checksum
ReadChecksum(input, hs, fs) ==
    LET p == IF fs.pos < Len(input) THEN fs.pos + 1 ELSE fs.pos
    IN  IF p + 20 > Len(input) THEN [ret |-> "Err", pbo |-> NoPBO]
        ELSE [ret |-> "Ok",
              pbo |-> [files |-> fs.files,
                       header_extensions |-> hs.exts,
                       headers |-> hs.headers,
                       checksum |-> SubSeq(input, p + 1, p + 20)]]

PBO_read(input) ==
    TheOne({
        IF hs.ret # "Ok" THEN [ret |-> hs.ret, pbo |-> NoPBO]
        ELSE TheOne({
                 IF fs.ret # "Ok" THEN [ret |-> "Err", pbo |-> NoPBO]
                 ELSE ReadChecksum(input, hs, fs)
               : fs \in {ReadFiles(input, hs.pos, hs.headers, <<>>)}})
      : hs \in {ReadHeaders(input, 0, TRUE, <<>>, <<>>)}})

----------------------------------------------------------------------------
(* PBO::filehash *)

\* str::split(sep): the pieces of str between the occurrences of the byte sep
RECURSIVE Split(_, _)
Split(str, sep) ==
    TheOne({
        IF k = -1 THEN <<str>>
        ELSE <<StrTo(str, k)>> \o Split(StrFrom(str, k + 1), sep)
      : k \in {Find(str, sep)}})

\* lines 263-267
Denylist ==
    {Str_paa, <<106, 112, 103>>, <<112, 51, 100>>, <<116, 103, 97>>,
     <<114, 118, 109, 97, 116>>, <<108, 105, 112>>, <<111, 103, 103>>,
     <<119, 115, 115>>, <<112, 110, 103>>, <<114, 116, 109>>, <<112, 97, 99>>,
     <<102, 120, 121>>, <<119, 114, 112>>}

\* line 261: name.split(".").last().unwrap()
LastPiece(name) ==
    TheOne({pieces[Len(pieces)] : pieces \in {Split(name, DOT)}})

\* lines 260-271: what the loop feeds the hasher, and `nothing` after it
RECURSIVE HashLoop(_, _, _)
HashLoop(files, fed, nothing) ==
    IF files = <<>> THEN [fed |-> fed, nothing |-> nothing]
    ELSE IF LastPiece(Head(files)[1]) \in Denylist
         THEN HashLoop(Tail(files), fed, nothing)
         ELSE HashLoop(Tail(files), fed \o Head(files)[2], FALSE)

filehash(p) ==
    TheOne({
        Sha1(IF h.nothing THEN h.fed \o Str_nothing ELSE h.fed)
      : h \in {HashLoop(p.files, <<>>, TRUE)}})

----------------------------------------------------------------------------
(* Directory packer: list_files, PBO::from_directory.  A directory is the   *)
(* sequence of its entries in the order read_dir yields them; an entry is   *)
(* [name, dir, content], content being the bytes of a file or the entries   *)
(* of a directory.                                                          *)

\* the paths below `directory`, relative to the packed root, with `/`
RECURSIVE list_files(_, _)
list_files(directory, path) ==
    IF directory = <<>> THEN <<>>
    ELSE LET entry == Head(directory)
         IN  (IF entry.dir
              THEN list_files(entry.content, path \o entry.name \o <<SLASH>>)
              ELSE <<[path |-> path \o entry.name, content |-> entry.content]>>)
             \o list_files(Tail(directory), path)

\* line 130: str::replace("/", "\\")
ReplaceSlash(str) ==
    [k \in 1..Len(str) |-> IF str[k] = SLASH THEN BACKSLASH ELSE str[k]]

\* lines 139-148: the lines of $PBOPREFIX$ from the first of `lines` on
RECURSIVE ParsePrefix(_, _)
ParsePrefix(lines, exts) ==
    IF lines = <<>> \/ Len(Head(lines)) = 0 THEN exts
    ELSE TheOne({
             ParsePrefix(Tail(lines),
                         IF Len(eq) = 1
                         THEN HashMapInsert(exts, Str_prefix, Head(lines))
                         ELSE HashMapInsert(exts, eq[1], eq[2]))
           : eq \in {Split(Head(lines), EQUALS)}})

\* Config::read followed by Config::to_cursor: the rapified configuration,
\* which opens with the signature "\0raP"
Config_to_cursor(source) == <<NUL, 114, 97, 80>> \o source

\* lines 128-161: the loop over file_list from its first element on.
\* unreadable: the paths File::open or read_to_end fails on; compiles:
\* whether Config::read accepts config.cpp.
RECURSIVE PackLoop(_, _, _, _, _, _, _)
PackLoop(file_list, exclude_patterns, unreadable, compiles, oc, files, exts) ==
    IF file_list = <<>> THEN [ret |-> "Ok", files |-> files, exts |-> exts]
    ELSE LET name == ReplaceSlash(Head(file_list).path)
             content == Head(file_list).content
             rest == Tail(file_list)
         IN  TheOne({
             IF allowed = "panic" THEN [ret |-> "panic"]
             ELSE IF allowed = "false"
             THEN PackLoop(rest, exclude_patterns, unreadable, compiles, oc,
                           files, exts)
             ELSE IF Head(file_list).path \in unreadable THEN [ret |-> "Err"]
             ELSE IF name = Str_PBOPREFIX
             THEN PackLoop(rest, exclude_patterns, unreadable, compiles, oc,
                           files, ParsePrefix(Split(content, NEWLINE), exts))
             ELSE IF name = Str_config_cpp
             THEN IF ~compiles THEN [ret |-> "panic"]       \* expect("@todo")
                  ELSE PackLoop(rest, exclude_patterns, unreadable, compiles, oc,
                                LinkedHashMapInsert(files, Str_config_bin,
                                                    Config_to_cursor(content)),
                                exts)
             ELSE PackLoop(rest, exclude_patterns, unreadable, compiles, oc,
                           LinkedHashMapInsert(files, name, content), exts)
           : allowed \in {file_allowed(name, exclude_patterns, oc)}})

\* `directory` is the listing of the packed directory and dirname its
\* file_name()
from_directory(directory, dirname, exclude_patterns, unreadable, compiles, oc) ==
    TheOne({
        IF r.ret # "Ok" THEN [ret |-> r.ret, pbo |-> NoPBO]
        ELSE [ret |-> "Ok",
              pbo |-> [files |-> r.files,
                       header_extensions |->
                           IF Str_prefix \in Keys(r.exts) THEN r.exts
                           ELSE HashMapInsert(r.exts, Str_prefix, dirname),
                       headers |-> <<>>,
                       checksum |-> <<>>]]
      : r \in {PackLoop(list_files(directory, <<>>), exclude_patterns,
                        unreadable, compiles, oc, <<>>, <<>>)}})

----------------------------------------------------------------------------
(* The glob filter called on drawn inputs *)

GlobAlphabet == {97, 98, STAR}
GlobExamples == {Str_a_p3d, Str_star_p3d, Str_b_star_p3d, Str_config_cpp}
GlobStrings == SeqsUpTo(GlobAlphabet, MaxLen) \cup GlobExamples
GlobPatterns == {<<STAR>>, <<97, STAR>>, <<97, 98, STAR>>, <<97>>, Str_star_p3d}

IdleInit ==
    /\ pc = "idle"
    /\ arg = <<>>
    /\ pbo = NoPBO
    /\ output = <<>>
    /\ failed = {}
    /\ loaded = NoPBO
    /\ ret = "none"

CallMatchesGlob ==
    /\ pc = "idle"
    /\ \E s \in GlobStrings, pattern \in GlobStrings, oc \in BOOLEAN :
         /\ arg' = [fn |-> "matches_glob", s |-> s, pattern |-> pattern, oc |-> oc]
         /\ ret' = matches_glob(s, pattern, oc)
    /\ pc' = "returned"
    /\ UNCHANGED <<pbo, output, failed, loaded>>

CallFileAllowed ==
    /\ pc = "idle"
    /\ \E name \in GlobStrings, pats \in SeqsUpTo(GlobPatterns, MaxPatterns),
          oc \in BOOLEAN :
         /\ arg' = [fn |-> "file_allowed", s |-> name, pattern |-> pats, oc |-> oc]
         /\ ret' = file_allowed(name, pats, oc)
    /\ pc' = "returned"
    /\ UNCHANGED <<pbo, output, failed, loaded>>

GlobNext == CallMatchesGlob \/ CallFileAllowed

SpecGlob == IdleInit /\ [][GlobNext]_vars

----------------------------------------------------------------------------
(* A container built in memory, written to a stream and read back *)

\* the entries drawn: "a", "A", "B" and the empty name, each with a content
\* of its own
FileEntries ==
    {<<<<97>>, <<7>>>>, <<<<65>>, <<>>>>, <<<<66>>, <<8, NUL>>>>, <<<<>>, <<9>>>>}

\* the extensions drawn: "prefix", "k", "j", the empty key, and a value
\* holding a NUL
Extensions ==
    {<<Str_prefix, <<120>>>>, <<<<107>>, <<121>>>>, <<<<106>>, <<>>>>,
     <<<<>>, <<120>>>>, <<<<110>>, <<121, NUL>>>>}

\* the maps of at most n of the pairs of S, in every order
MapsUpTo(S, n) ==
    {m \in SeqsUpTo(S, n) : \A i, j \in 1..Len(m) : i # j => m[i][1] # m[j][1]}

Containers ==
    {[files |-> f, header_extensions |-> e, headers |-> <<>>, checksum |-> <<>>] :
        f \in MapsUpTo(FileEntries, MaxFiles),
        e \in MapsUpTo(Extensions, MaxExtensions)}

Init ==
    /\ pc = "built"
    /\ arg = <<>>
    /\ pbo \in Containers
    /\ output = <<>>
    /\ failed = {}
    /\ loaded = NoPBO
    /\ ret = "none"

\* pbo.write(output) on a stream that refuses some of the write_all calls
Write ==
    /\ pc = "built"
    /\ \E r \in WriteOutcomes(pbo, output) :
         /\ output' = r.output
         /\ failed' = r.failed
         /\ ret' = r.ret
    /\ pc' = "written"
    /\ UNCHANGED <<arg, pbo, loaded>>

\* PBO::read of the stream that write reported written.  The loaded
\* header_extensions are held in the order read inserted them: nothing here
\* iterates them.
Read ==
    /\ pc = "written"
    /\ ret = "Ok"
    /\ \E r \in {PBO_read(output)} :
         /\ ret' = r.ret
         /\ loaded' = r.pbo
    /\ pc' = "read"
    /\ UNCHANGED <<arg, pbo, output, failed>>

Next == Write \/ Read

Spec == Init /\ [][Next]_vars

----------------------------------------------------------------------------
(* PBO::filehash called on containers built in memory *)

\* "texture.paa", "paa", "a.b", "x"
HashNames == {Str_texture_paa, Str_paa, <<97, DOT, 98>>, <<120>>}
HashContents == {<<>>, <<1>>, <<2>>}

HashContainers ==
    {[files |-> f, header_extensions |-> <<>>, headers |-> <<>>, checksum |-> <<>>] :
        f \in {m \in SeqsUpTo(HashNames \X HashContents, MaxFiles) :
                  \A i, j \in 1..Len(m) : i # j => m[i][1] # m[j][1]}}

HashInit ==
    /\ pc = "built"
    /\ arg = <<>>
    /\ pbo \in HashContainers
    /\ output = <<>>
    /\ failed = {}
    /\ loaded = NoPBO
    /\ ret = "none"

CallFilehash ==
    /\ pc = "built"
    /\ ret' = filehash(pbo)
    /\ pc' = "hashed"
    /\ UNCHANGED <<arg, pbo, output, failed, loaded>>

HashNext == CallFilehash

SpecHash == HashInit /\ [][HashNext]_vars

----------------------------------------------------------------------------
(* PBO::from_directory called on drawn directories *)

\* the texts of $PBOPREFIX$: "p", "a=b", "a=b=c", "p" "" "k=v", "a=b" "q"
PrefixTexts ==
    {<<112>>, <<97, EQUALS, 98>>, <<97, EQUALS, 98, EQUALS, 99>>,
     <<112, NEWLINE, NEWLINE, 107, EQUALS, 118>>,
     <<97, EQUALS, 98, NEWLINE, 113>>}

File(name, content) == [name |-> name, dir |-> FALSE, content |-> content]

\* config.cpp, a literal config.bin, $PBOPREFIX$, a file "a"
RootFiles ==
    {File(Str_config_cpp, <<99>>), File(Str_config_bin, <<1, 2>>), File(<<97>>, <<5>>)}
        \cup {File(Str_PBOPREFIX, text) : text \in PrefixTexts}

\* a directory "d" holding a file "x"
SubDirs == {[name |-> <<100>>, dir |-> TRUE, content |-> <<File(<<120>>, <<6>>)>>]}

Directories ==
    {d \in SeqsUpTo(RootFiles \cup SubDirs, MaxDirEntries) :
        \A i, j \in 1..Len(d) : i # j => d[i].name # d[j].name}

\* none, "config.bin", "*.cpp", and "d\xx*", which is longer than "d\x"
ExcludeLists ==
    {<<>>, <<Str_config_bin>>, <<<<STAR, DOT, 99, 112, 112>>>>,
     <<<<100, BACKSLASH, 120, 120, STAR>>>>}

\* the name of the packed directory: "m"
DirName == <<109>>

CallFromDirectory ==
    /\ pc = "idle"
    /\ \E directory \in Directories, exclude_patterns \in ExcludeLists,
          compiles \in BOOLEAN, oc \in BOOLEAN :
         \E unreadable \in {{}} \cup {{f.path} : f \in Pairs(list_files(directory, <<>>))} :
         \E r \in {from_directory(directory, DirName, exclude_patterns,
                                  unreadable, compiles, oc)} :
             /\ arg' = [directory |-> directory, exclude_patterns |-> exclude_patterns,
                        unreadable |-> unreadable, compiles |-> compiles]
             /\ pbo' = r.pbo
             /\ ret' = r.ret
    /\ pc' = "packed"
    /\ UNCHANGED <<output, failed, loaded>>

PackNext == CallFromDirectory

SpecPack == IdleInit /\ [][PackNext]_vars

----------------------------------------------------------------------------
(* C1, C2, C3, C6, C7: PBO::write and PBO::read *)

\* the orders the entries of p can be laid out in
Layouts(p) ==
    {o \in [1..Len(p.files) -> Pairs(p.files)] :
        \A i, j \in 1..Len(p.files) : i # j => o[i] # o[j]}

\* an archive without its digest: the extensions of p, then the entry
\* headers in the order `order`, then the contents in that order, then the
\* padding byte
Laid(p, order) ==
    PBOHeader_write(ext_header) \o ExtensionBytes(p.header_extensions)
        \o EntryHeaderBytes(order) \o TerminatorBytes
        \o Concat([k \in 1..Len(order) |-> order[k][2]]) \o <<NUL>>

\* the stream accepted every byte write gave it
Accepted == pc \in {"written", "read"} /\ failed = {}

NulFree(str) == \A k \in 1..Len(str) : str[k] # NUL

\* what the wire format can carry: names and keys that are not empty, and
\* no NUL inside a name, a key or a value
Representable(p) ==
    /\ \A k \in 1..Len(p.files) : p.files[k][1] # <<>> /\ NulFree(p.files[k][1])
    /\ \A k \in 1..Len(p.header_extensions) :
           /\ p.header_extensions[k][1] # <<>>
           /\ NulFree(p.header_extensions[k][1])
           /\ NulFree(p.header_extensions[k][2])

SameMaps(p, q) ==
    /\ Pairs(p.files) = Pairs(q.files)
    /\ Pairs(p.header_extensions) = Pairs(q.header_extensions)

\* C1 as stated: for every container built in memory, PBO::read of the
\* bytes PBO::write produced succeeds and returns the same name -> bytes
\* and key -> value mappings.
C1_RoundTrip_AsStated ==
    (pc = "read" /\ Accepted) => (ret = "Ok" /\ SameMaps(loaded, pbo))

\* C1, amended: the round trip holds for every container whose names and
\* keys are not empty and whose names, keys and values hold no NUL.
C1_RoundTrip ==
    (pc = "read" /\ Accepted /\ Representable(pbo)) =>
        (ret = "Ok" /\ SameMaps(loaded, pbo))

C1_Witness ==
    /\ pc = "read" /\ Accepted /\ Representable(pbo)
    /\ Len(pbo.files) = 2 /\ Len(pbo.header_extensions) = 2
    /\ ret = "Ok" /\ Len(loaded.files) = 2

\* C2: the bytes write emits are a function of the two mappings alone: a
\* container holding the same mappings, with its entries inserted and its
\* extensions iterated in any other order, is written to the same bytes
\* (stated for the containers the wire format can carry).
C2_WriteDeterministic ==
    (pc = "written" /\ Accepted /\ Representable(pbo)) =>
        \A q \in Containers :
            SameMaps(q, pbo) => PBO_write(q, <<>>, {}).output = output

\* C3 as stated: the entry headers of the output are in strictly ascending
\* order of their lowercased filenames, whatever the insertion order, and
\* the content blocks follow in the same order.
C3_SortedStrictly_AsStated ==
    (pc = "written" /\ Accepted) =>
        \E order \in Layouts(pbo) :
            /\ SubSeq(output, 1, Len(output) - 20) = Laid(pbo, order)
            /\ \A k \in 1..(Len(order) - 1) :
                   StrLess(to_lowercase(order[k][1]), to_lowercase(order[k + 1][1]))

\* C3, amended: consecutive entry headers are in ascending order of their
\* lowercased filenames, the first never greater than the second, and
\* strictly less when the two names do not differ in letter case only; the
\* content blocks follow in the same order.
C3_Sorted ==
    (pc = "written" /\ Accepted) =>
        \E order \in Layouts(pbo) :
            /\ SubSeq(output, 1, Len(output) - 20) = Laid(pbo, order)
            /\ \A k \in 1..(Len(order) - 1) :
                   /\ ~StrLess(to_lowercase(order[k + 1][1]), to_lowercase(order[k][1]))
                   /\ to_lowercase(order[k][1]) # to_lowercase(order[k + 1][1])
                          => StrLess(to_lowercase(order[k][1]),
                                     to_lowercase(order[k + 1][1]))

\* entries inserted in descending order, one of them upper case
C3_Witness ==
    /\ pc = "written" /\ Accepted
    /\ Len(pbo.files) = 2
    /\ pbo.files[1][1] = <<66>> /\ pbo.files[2][1] = <<97>>

\* C6: written to a stream that accepts every byte, the output ends with a
\* zero byte followed by the 20-byte SHA-1 of
\* all the bytes before that zero byte, which are the header section
\* followed by the contents in sorted order; the zero byte is not hashed.
C6_TrailingChecksum ==
    (pc = "written" /\ Accepted) =>
        /\ ret = "Ok"
        /\ Len(output) >= 21
        /\ output[Len(output) - 20] = NUL
        /\ SubSeq(output, Len(output) - 19, Len(output))
               = Sha1(SubSeq(output, 1, Len(output) - 21))
        /\ SubSeq(output, 1, Len(output) - 21)
               = HeaderSection(pbo)
                     \o Concat([k \in 1..Len(pbo.files) |->
                                   files_sorted(pbo.files)[k][2]])

C6_Witness ==
    /\ pc = "written" /\ Accepted
    /\ Len(pbo.files) = 2 /\ Len(pbo.header_extensions) = 1
    /\ Len(output) > 21

\* C7: write returns an error when the stream refuses any write, and Ok
\* only when the stream accepted every byte of the archive.
C7_WriteFailuresFatal ==
    pc = "written" =>
        /\ failed # {} => ret = "Err"
        /\ ret = "Ok" => output = PBO_write(pbo, <<>>, {}).output

----------------------------------------------------------------------------
(* C5: PBO::filehash *)

\* the claim's extension rule: the text after the last `.` is in the
\* denylist, and a name without `.` has no extension
ExcludedByExtension(name) ==
    Find(name, DOT) # -1 /\ LastPiece(name) \in Denylist

\* C5: filehash is the SHA-1 of the bytes, in iteration order, of the
\* entries whose extension is not in the denylist, and of the placeholder
\* "nothing" if and only if every entry is excluded or there is none.
C5_ContentHash ==
    pc = "hashed" =>
        LET kept == SelectSeq(pbo.files, LAMBDA e : ~ExcludedByExtension(e[1]))
        IN  ret = Sha1(IF kept = <<>> THEN Str_nothing
                       ELSE Concat([k \in 1..Len(kept) |-> kept[k][2]]))

----------------------------------------------------------------------------
(* C8, C9: PBO::from_directory *)

\* the file `name` of the root of the packed directory, not excluded
Packed(name) ==
    /\ \E k \in 1..Len(arg.directory) :
           arg.directory[k].name = name /\ ~arg.directory[k].dir
    /\ file_allowed(name, arg.exclude_patterns, TRUE) = "true"

RootContent(name) ==
    arg.directory[CHOOSE k \in 1..Len(arg.directory) : arg.directory[k].name = name].content

\* C8: with config.cpp and a literal config.bin both in the root and not
\* excluded, whatever the order of the walk, the container has exactly one
\* config.bin entry, holding the compiled config.cpp, and no config.cpp.
C8_ConfigBinReplaced ==
    (pc = "packed" /\ ret = "Ok" /\ Packed(Str_config_cpp) /\ Packed(Str_config_bin)) =>
        /\ Cardinality({k \in 1..Len(pbo.files) : pbo.files[k][1] = Str_config_bin}) = 1
        /\ pbo.files[Get(pbo.files, Str_config_bin)][2]
               = Config_to_cursor(RootContent(Str_config_cpp))
        /\ Str_config_cpp \notin Keys(pbo.files)

\* the claim's reading of $PBOPREFIX$: up to the first empty line, a line
\* without `=` is the prefix, and a line with `=` is cut at its first `=`
\* only
RECURSIVE PrefixRule(_, _)
PrefixRule(lines, exts) ==
    IF lines = <<>> \/ Len(Head(lines)) = 0 THEN exts
    ELSE LET l == Head(lines)
             i == Find(l, EQUALS)
         IN  PrefixRule(Tail(lines),
                        IF i = -1 THEN HashMapInsert(exts, Str_prefix, l)
                        ELSE HashMapInsert(exts, StrTo(l, i), StrFrom(l, i + 1)))

\* C9: the header extensions are those the claim's reading of $PBOPREFIX$
\* gives (with the directory's name for prefix when no line set it), and
\* $PBOPREFIX$ is not an entry.
C9_PrefixParsed ==
    (pc = "packed" /\ ret = "Ok" /\ Packed(Str_PBOPREFIX)) =>
        LET parsed == PrefixRule(Split(RootContent(Str_PBOPREFIX), NEWLINE), <<>>)
            expected == IF Str_prefix \in Keys(parsed) THEN parsed
                        ELSE HashMapInsert(parsed, Str_prefix, DirName)
        IN  /\ Pairs(pbo.header_extensions) = Pairs(expected)
            /\ Str_PBOPREFIX \notin Keys(pbo.files)

----------------------------------------------------------------------------
(* C4, C10: the glob filter *)

\* the rule of the claim: no `*`: equality; first `*` at i: equal prefixes
\* and some split point k in i..len(candidate) whose tail matches the rest
RECURSIVE GlobRule(_, _)
GlobRule(s, pattern) ==
    LET i == Find(pattern, STAR) IN
    IF i = -1 THEN s = pattern
    ELSE /\ i <= Len(s)
         /\ StrTo(s, i) = StrTo(pattern, i)
         /\ \E k \in i..Len(s) : GlobRule(StrFrom(s, k), StrFrom(pattern, i + 1))

\* C4: matches_glob returns true exactly when the claim's rule holds (so it
\* is true on ("a.p3d", "*.p3d") and ("config.cpp", "config.cpp") and false
\* on ("a.p3d", "b*.p3d")), and file_allowed is true iff no pattern of the
\* list matches by that rule.
C4_GlobMatchesRule ==
    pc = "returned" =>
        /\ arg.fn = "matches_glob" =>
               (ret = "true") = GlobRule(arg.s, arg.pattern)
        /\ arg.fn = "file_allowed" =>
               (ret = "true") =
                   (\A k \in 1..Len(arg.pattern) : ~GlobRule(arg.s, arg.pattern[k]))

\* C10: matches_glob and file_allowed return a boolean for every candidate
\* and every pattern: no slice goes past the candidate's end and `len - 1`
\* never underflows.
C10_GlobTotal ==
    pc = "returned" => ret \in {"true", "false"}

============================================================================
